---- MODULE Spec2Model ----
(***************************************************************************)
(* Model of the quiz backend (server.js):                                  *)
(*   POST /api/attempts, GET /api/attempts, GET /api/quizzes/:id and       *)
(*   POST /api/quizzes (quizzes.js), over the Attempt and Quiz collections *)
(*   declared in models.js;                                                *)
(*   POST /api/parse-image and POST /api/parse-pdf with parseJsonLenient,  *)
(*   stripCodeFences and the calls to the generation service;              *)
(*   POST /api/chats and GET /api/chats over the Chat collection.          *)
(*                                                                         *)
(* JSON values are records [t, s, n]; a JavaScript string is the sequence  *)
(* of its characters, so that String.prototype.trim and the question-key   *)
(* pattern are computed rather than assumed.  A JSON object is a function  *)
(* from keys (character sequences) to values.  What JSON.parse returns is  *)
(* such a value, or an array [t, items] or an object [t, fields].          *)
(*                                                                         *)
(* The document store is taken to answer every query: a collection is a    *)
(* set of documents and findOne / findOneAndUpdate are atomic steps.  A    *)
(* request body carries quizId, email, score, totalQuestions and           *)
(* submitted, as the interface of the endpoint lists them.                 *)
(*                                                                         *)
(* Eight specifications share the actions:                                 *)
(*   SpecSeq   saves of one student that do not overlap, over many bodies; *)
(*   Spec      up to MaxRequests requests of two students whose awaits     *)
(*             interleave freely;                                          *)
(*   SpecQuiz  the quiz endpoints over a collection that already holds a   *)
(*             quiz with some allow-list;                                  *)
(*   SpecEmpty the quiz endpoints over a collection that starts empty;     *)
(*   SpecParse parse requests, one after the other, over what the          *)
(*             extractors and the generation service may answer;           *)
(*   SpecChat  chat requests, one after the other;                         *)
(*   SpecFlat  saves whose payload carries keys at its top level;          *)
(*   SpecIso   saves of pairs whose quiz id or address holds "::".         *)
(*                                                                         *)
(* written is a history variable: written[<<quizId, email>>] is the        *)
(* document of the latest upsert applied for that pair, NoDoc before the   *)
(* first.  clock is Date.now().  uploads is the upload directory, chats    *)
(* the Chat collection, and calls the log of the calls to the generation   *)
(* service made for the parse request being handled, each with its reply   *)
(* once it has one.                                                        *)
(***************************************************************************)
EXTENDS FiniteSets, Integers, Sequences, TLC

VARIABLES attempts, quizzes, req, written, clock, uploads, calls, chats

vars == <<attempts, quizzes, req, written, clock, uploads, calls, chats>>

(***************************************************************************)
(* Bounds of the model.                                                    *)
(***************************************************************************)
MaxClock == 1

MaxRequests == 3

(***************************************************************************)
(* JSON values.                                                            *)
(***************************************************************************)
Null == [t |-> "null", s |-> <<>>, n |-> 0]

Str(cs) == [t |-> "string", s |-> cs, n |-> 0]

Num(i) == [t |-> "number", s |-> <<>>, n |-> i]

Undefined == [t |-> "undefined", s |-> <<>>, n |-> 0]

Object == [t |-> "object", s |-> <<>>, n |-> 0]

EmptyObject == <<>>

\* An array-valued field of a stored document, or the field missing.
Unset == [isArray |-> FALSE, items |-> <<>>]

Array(items) == [isArray |-> TRUE, items |-> items]

NoDoc == [none |-> TRUE]

\* The characters String.prototype.trim removes that occur in the model.
WhiteSpace == {" ", "\t", "\n"}

RECURSIVE TrimStart(_)
TrimStart(cs) ==
    IF cs # <<>> /\ Head(cs) \in WhiteSpace THEN TrimStart(Tail(cs)) ELSE cs

RECURSIVE TrimEnd(_)
TrimEnd(cs) ==
    IF cs # <<>> /\ cs[Len(cs)] \in WhiteSpace
    THEN TrimEnd(SubSeq(cs, 1, Len(cs) - 1))
    ELSE cs

trim(cs) == TrimEnd(TrimStart(cs))

Digits == {"0", "1", "2", "3", "4", "5", "6", "7", "8", "9"}

IsQuestionKeyUnanchored(k) ==
    /\ Len(k) >= 2
    /\ k[1] = "q"
    /\ k[2] \in Digits

\* /^q\d+$/.test(k)
IsQuestionKey(k) ==
    /\ Len(k) >= 2
    /\ k[1] = "q"
    /\ \A i \in 2..Len(k) : k[i] \in Digits

(***************************************************************************)
(* POST /api/attempts: the pure part of the handler.                       *)
(***************************************************************************)
\* incomingAnswers: the nested answers object, then the top-level qN keys.
IncomingAnswers(body) ==
    LET nested == IF body.hasAnswers THEN body.answers ELSE EmptyObject
        topKeys == {k \in DOMAIN body.top : IsQuestionKey(k)}
    IN  [k \in (DOMAIN nested) \cup topKeys |->
            IF k \in topKeys THEN body.top[k] ELSE nested[k]]

IncomingProgress(body) ==
    IF body.hasProgress THEN body.progress ELSE EmptyObject

\* `${quizId}::${email}`
AttemptId(quizId, email) == quizId \o "::" \o email

SkipAnswerNullOnly(v) == v = Null

\* if(v === null) return; if(typeof v === 'string' && v.trim() === '') return;
SkipAnswer(v) ==
    \/ v = Null
    \/ v.t = "string" /\ trim(v.s) = <<>>

SkipProgress(v) == v = Null

MergeAnswersReplacing(existing, incomingAnswers) ==
    [k \in {j \in DOMAIN incomingAnswers : ~SkipAnswer(incomingAnswers[j])} |->
        incomingAnswers[k]]

MergeAnswers(existing, incomingAnswers) ==
    LET base == IF existing # NoDoc THEN existing.answers ELSE EmptyObject
        applied == {k \in DOMAIN incomingAnswers : ~SkipAnswer(incomingAnswers[k])}
    IN  [k \in (DOMAIN base) \cup applied |->
            IF k \in applied THEN incomingAnswers[k] ELSE base[k]]

MergeProgressSkippingBlank(existing, incomingProgress) ==
    MergeAnswers(existing, incomingProgress)

MergeProgress(existing, incomingProgress) ==
    LET base == IF existing # NoDoc THEN existing.progress ELSE EmptyObject
        applied == {k \in DOMAIN incomingProgress : ~SkipProgress(incomingProgress[k])}
    IN  [k \in (DOMAIN base) \cup applied |->
            IF k \in applied THEN incomingProgress[k] ELSE base[k]]

AttemptDocAddingScore(existing, body, now) ==
    [id |-> AttemptId(body.quizId, body.email),
     quizId |-> body.quizId,
     email |-> body.email,
     answers |-> MergeAnswers(existing, IncomingAnswers(body)),
     progress |-> MergeProgress(existing, IncomingProgress(body)),
     score |-> IF existing = NoDoc THEN body.score ELSE existing.score + body.score,
     totalQuestions |-> body.totalQuestions,
     submitted |-> body.submitted,
     submittedAt |-> now]

AttemptDocStampingOnSubmit(existing, body, now) ==
    [id |-> AttemptId(body.quizId, body.email),
     quizId |-> body.quizId,
     email |-> body.email,
     answers |-> MergeAnswers(existing, IncomingAnswers(body)),
     progress |-> MergeProgress(existing, IncomingProgress(body)),
     score |-> body.score,
     totalQuestions |-> body.totalQuestions,
     submitted |-> body.submitted,
     submittedAt |-> IF body.submitted \/ existing = NoDoc THEN now
                     ELSE existing.submittedAt]

\* const doc = { id, quizId, email, answers, progress, score, ... }
AttemptDoc(existing, body, now) ==
    [id |-> AttemptId(body.quizId, body.email),
     quizId |-> body.quizId,
     email |-> body.email,
     answers |-> MergeAnswers(existing, IncomingAnswers(body)),
     progress |-> MergeProgress(existing, IncomingProgress(body)),
     score |-> body.score,
     totalQuestions |-> body.totalQuestions,
     submitted |-> body.submitted,
     submittedAt |-> now]

(***************************************************************************)
(* The document store: a collection is a set of documents.                 *)
(***************************************************************************)
\* Model.findOne({ id }): the document with this id, or null.
FindOne(coll, id) ==
    IF \E d \in coll : d.id = id
    THEN CHOOSE d \in coll : d.id = id
    ELSE NoDoc

FindOneAndUpdateInserting(coll, id, doc) == coll \cup {doc}

FindOneAndUpdateReplacingAll(coll, id, doc) == {doc}

FindOneAndUpdateKeepingStored(coll, id, doc) ==
    IF FindOne(coll, id) = NoDoc THEN coll \cup {doc} ELSE coll

\* Model.findOneAndUpdate({ id }, doc, { upsert: true, new: true })
FindOneAndUpdate(coll, id, doc) ==
    LET d == FindOne(coll, id)
    IN  IF d = NoDoc THEN coll \cup {doc} ELSE (coll \ {d}) \cup {doc}

(***************************************************************************)
(* Requests.  req[r] is the r-th request: the handler it runs, where the   *)
(* handler stands (pc), its locals (body, existing, doc) and, once it has  *)
(* answered, the response (status, out).                                   *)
(***************************************************************************)
Requests == 1..MaxRequests

IdleSlot ==
    [op |-> "none", pc |-> "idle", body |-> NoDoc, existing |-> NoDoc,
     doc |-> NoDoc, status |-> 0, out |-> NoDoc]

InFlight(r) == req[r].pc = "update"

Quiet == \A r \in Requests : ~InFlight(r)

\* Requests are numbered in the order in which they arrive.
Arrives(r) ==
    /\ req[r].pc = "idle"
    /\ \A q \in Requests : q < r => req[q].pc # "idle"

(***************************************************************************)
(* Inputs.                                                                 *)
(***************************************************************************)
QuizIds == {"z1"}

Emails == {"a@x.com", "b@x.com"}

Pairs == QuizIds \X Emails

Q1 == <<"q", "1">>

Q2 == <<"q", "2">>

P1 == <<"p", "1">>

AnswerValues ==
    {Null, Str(<<>>), Str(<<" ">>), Str(<<"A">>), Str(<<"B">>), Str(<<" ", "A">>)}

ProgressValues == {Null, Str(<<>>), Str(<<" ">>), Num(5)}

\* The JSON objects over some of the keys, valuesOf[k] being the values of key k.
Objects(valuesOf) ==
    UNION {{o \in [ks -> UNION {valuesOf[k] : k \in ks}] :
                \A k \in ks : o[k] \in valuesOf[k]} :
            ks \in SUBSET DOMAIN valuesOf}

Body(quizId, email, score, totalQuestions, submitted, hasAnswers, answers, hasProgress, progress, top) ==
    [quizId |-> quizId, email |-> email, score |-> score,
     totalQuestions |-> totalQuestions, submitted |-> submitted,
     hasAnswers |-> hasAnswers, answers |-> answers,
     hasProgress |-> hasProgress, progress |-> progress, top |-> top]

\* Autosave payloads of one student: each varies one part of the body.
AnswerBodies(quizId, email) ==
    {Body(quizId, email, 0, 2, FALSE, TRUE, a, FALSE, EmptyObject, EmptyObject) :
        a \in Objects((Q1 :> AnswerValues) @@ (Q2 :> {Null, Str(<<"A">>)}))}

ProgressBodies(quizId, email) ==
    {Body(quizId, email, 0, 2, FALSE, FALSE, EmptyObject, TRUE, p, EmptyObject) :
        p \in Objects(P1 :> ProgressValues)}

ScalarBodies(quizId, email) ==
    {Body(quizId, email, st[1], st[2], b, FALSE, EmptyObject, FALSE, EmptyObject,
          EmptyObject) :
        st \in {<<0, 2>>, <<1, 3>>}, b \in BOOLEAN}

FlatBodies(quizId, email) ==
    {Body(quizId, email, 0, 2, FALSE, TRUE, a, FALSE, EmptyObject, t) :
        a \in Objects(Q1 :> {Str(<<"A">>)}),
        t \in Objects(Q1 :> {Null, Str(<<" ">>), Str(<<"B">>)})}

QuizKeys == {"k1", "k2"}

\* An address, where its characters do not matter, is a one-element string.
Address(e) == Str(<<e>>)

AllowLists ==
    {Unset, Array(<<>>), Array(<<Address("a@x.com")>>),
     Array(<<Address("a@x.com"), Address("b@x.com")>>)}

\* ?email= as Express parses it: missing, empty or a string.
QueryEmails ==
    {Undefined, Str(<<>>)} \cup {Address(e) : e \in {"a@x.com", "b@x.com", "c@x.com"}}

FinalizedJsons == {Undefined, Object, Str(<<"{", "}">>), Str(<<"{">>)}

FilePaths == {Null, <<"uploads", "f1.png">>}

\* A quiz as it may already be in the collection when the server starts.
StoredQuiz(id, allowed) ==
    [id |-> id, finalizedJson |-> Null, filePath |-> <<"uploads", "f0.pdf">>,
     metadata |-> Undefined, courseId |-> "c1",
     teacherId |-> "t1", allowedStudents |-> allowed, updatedAt |-> 0]

SeqBodies ==
    AnswerBodies("z1", "a@x.com") \cup ProgressBodies("z1", "a@x.com")
        \cup ScalarBodies("z1", "a@x.com") \cup FlatBodies("z1", "a@x.com")

\* Autosaves of two students that may overlap.
ConcBodies ==
    {Body("z1", "a@x.com", 0, 2, FALSE, TRUE, Q1 :> Str(<<"A">>), FALSE, EmptyObject,
          EmptyObject),
     Body("z1", "a@x.com", 1, 2, TRUE, TRUE, Q2 :> Str(<<"B">>), FALSE, EmptyObject,
          EmptyObject),
     Body("z1", "b@x.com", 0, 2, FALSE, TRUE, Q1 :> Str(<<"A">>), FALSE, EmptyObject,
          EmptyObject)}

(***************************************************************************)
(* POST /api/attempts.  The handler awaits twice: findOne, after which it  *)
(* merges and builds doc, and findOneAndUpdate, after which it responds.   *)
(***************************************************************************)
PostAttemptsRead(r, body) ==
    /\ ~InFlight(r)
    /\ LET existing == FindOne(attempts, AttemptId(body.quizId, body.email))
       IN  req' = [req EXCEPT ![r] =
                    [op |-> "POST /api/attempts", pc |-> "update", body |-> body,
                     existing |-> existing,
                     doc |-> AttemptDoc(existing, body, clock),
                     status |-> 0, out |-> NoDoc]]
    /\ UNCHANGED <<attempts, quizzes, written, clock, uploads, calls, chats>>

PostAttemptsWrite(r) ==
    /\ InFlight(r)
    /\ LET doc == req[r].doc
       IN  /\ attempts' = FindOneAndUpdate(attempts, doc.id, doc)
           /\ written' = [written EXCEPT ![<<doc.quizId, doc.email>>] = doc]
           /\ req' = [req EXCEPT ![r].pc = "done", ![r].status = 200,
                                 ![r].out = FindOne(attempts', doc.id)]
    /\ UNCHANGED <<quizzes, clock, uploads, calls, chats>>

(***************************************************************************)
(* GET /api/attempts?quizId&email                                          *)
(***************************************************************************)
GetAttempts(r, quizId, email) ==
    /\ ~InFlight(r)
    /\ LET a == FindOne(attempts, AttemptId(quizId, email))
       IN  req' = [req EXCEPT ![r] =
                    [op |-> "GET /api/attempts", pc |-> "done",
                     body |-> [quizId |-> quizId, email |-> email],
                     existing |-> NoDoc, doc |-> NoDoc,
                     status |-> IF a = NoDoc THEN 404 ELSE 200,
                     out |-> a]]
    /\ UNCHANGED <<attempts, quizzes, written, clock, uploads, calls, chats>>

(***************************************************************************)
(* Quizzes.  A stored quiz carries allowedStudents as an array, or not at  *)
(* all (a document written before the field existed).  filePath is the     *)
(* sequence of the segments of the relative path, or Null.                 *)
(***************************************************************************)
\* path.basename(p)
Basename(p) == p[Len(p)]

Host == "http://127.0.0.1:3004"

\* q.filePath ? `${host}/server/uploads/${path.basename(q.filePath)}` : null
FileUrl(q) ==
    IF q.filePath # Null
    THEN Str(<<Host, "/server/uploads/", Basename(q.filePath)>>)
    ELSE Null

\* q.allowedStudents && q.allowedStudents.length > 0
HasAllowList(q) ==
    q.allowedStudents.isArray /\ Len(q.allowedStudents.items) > 0

\* q.allowedStudents.includes(email)
Includes(items, v) == \E i \in 1..Len(items) : items[i] = v

NotAllowedWhenMissing(q, email) ==
    \/ email = Undefined
    \/ email.s = <<>>

\* !email || !q.allowedStudents.includes(email)
NotAllowed(q, email) ==
    \/ email = Undefined
    \/ email.s = <<>>
    \/ ~Includes(q.allowedStudents.items, email)

\* The status GET /api/quizzes/:id answers with.
QuizStatus(q, email) ==
    IF q = NoDoc THEN 404
    ELSE IF HasAllowList(q) /\ NotAllowed(q, email) THEN 403
    ELSE 200

GetQuiz(r, id, email) ==
    /\ ~InFlight(r)
    /\ LET q == FindOne(quizzes, id)
           status == QuizStatus(q, email)
       IN  req' = [req EXCEPT ![r] =
                    [op |-> "GET /api/quizzes/:id", pc |-> "done",
                     body |-> [id |-> id, email |-> email],
                     existing |-> NoDoc, doc |-> NoDoc,
                     status |-> status,
                     out |-> IF status = 200
                             THEN [quiz |-> q, fileUrl |-> FileUrl(q)]
                             ELSE NoDoc]]
    /\ UNCHANGED <<attempts, quizzes, written, clock, uploads, calls, chats>>

\* typeof finalizedJson === 'string' ? JSON.parse (null when it throws) : the object
ParsedJson(finalizedJson) ==
    IF finalizedJson.t = "object" THEN finalizedJson
    ELSE IF finalizedJson.t = "string" /\ finalizedJson.s = <<"{", "}">>
         THEN Object
    ELSE Null

QuizUpsertAllowingTeacher(existing, id, finalizedJson, filePath, now) ==
    [id |-> id,
     finalizedJson |-> ParsedJson(finalizedJson),
     filePath |-> filePath,
     metadata |-> Undefined,
     courseId |-> "c1",
     teacherId |-> "t1",
     allowedStudents |-> Array(<<Address("t1")>>),
     updatedAt |-> now]

\* The update document of POST /api/quizzes applied to the stored quiz, or
\* inserted with the defaults of QuizSchema.
QuizUpsert(existing, id, finalizedJson, filePath, now) ==
    [id |-> id,
     finalizedJson |-> ParsedJson(finalizedJson),
     filePath |-> filePath,
     metadata |-> Undefined,
     courseId |-> "c1",
     teacherId |-> "t1",
     allowedStudents |-> IF existing = NoDoc THEN Array(<<>>)
                         ELSE existing.allowedStudents,
     updatedAt |-> now]

PostQuiz(r, id, finalizedJson, filePath) ==
    /\ ~InFlight(r)
    /\ LET existing == FindOne(quizzes, id)
           doc == QuizUpsert(existing, id, finalizedJson, filePath, clock)
       IN  /\ quizzes' = FindOneAndUpdate(quizzes, id, doc)
           /\ req' = [req EXCEPT ![r] =
                        [op |-> "POST /api/quizzes", pc |-> "done",
                         body |-> [id |-> id, finalizedJson |-> finalizedJson],
                         existing |-> NoDoc, doc |-> NoDoc,
                         status |-> 200, out |-> doc]]
    /\ UNCHANGED <<attempts, written, clock, uploads, calls, chats>>

(***************************************************************************)
(* The text the generation service returns, and JSON.parse.  A text is the *)
(* sequence of its UTF-16 units; a unit outside ASCII is written by its    *)
(* code ("u201C").  The parser covers objects, arrays, strings without     *)
(* escapes, unsigned integers, true, false and null, which is the JSON     *)
(* that occurs in the model.                                               *)
(***************************************************************************)
Bool(b) == [t |-> "boolean", b |-> b]

JsonArray(items) == [t |-> "array", items |-> items]

JsonObject(fields) == [t |-> "object", fields |-> fields]

SmartDouble == {"u201C", "u201D"}

SmartSingle == {"u2018", "u2019"}

\* The characters of [\u0000-\u001F\u007F-\u009F] that occur in the model.
ControlChars == {"\t", "\n", "u0007"}

\* Three backticks (U+0060).
Fence == <<"u0060", "u0060", "u0060">>

UpperCase == <<"H", "T", "M", "L", "J", "S", "O", "N">>

LowerCase == <<"h", "t", "m", "l", "j", "s", "o", "n">>

\* Case folding of the i flag, over the letters the patterns name.
Lower(c) ==
    IF \E i \in 1..Len(UpperCase) : UpperCase[i] = c
    THEN LowerCase[CHOOSE i \in 1..Len(UpperCase) : UpperCase[i] = c]
    ELSE c

\* lit occurs in cs at index i.
StartsWithAt(cs, i, lit) ==
    /\ i >= 1
    /\ i + Len(lit) - 1 <= Len(cs)
    /\ \A k \in 1..Len(lit) : cs[i + k - 1] = lit[k]

\* The same under the i flag (lit in lower case).
MatchesAt(cs, i, lit) ==
    /\ i >= 1
    /\ i + Len(lit) - 1 <= Len(cs)
    /\ \A k \in 1..Len(lit) : Lower(cs[i + k - 1]) = lit[k]

Least(S) == CHOOSE i \in S : \A j \in S : i <= j

Greatest(S) == CHOOSE i \in S : \A j \in S : i >= j

\* The index after the white space that starts at i.
RECURSIVE SkipSpace(_, _)
SkipSpace(cs, i) ==
    IF i <= Len(cs) /\ cs[i] \in WhiteSpace THEN SkipSpace(cs, i + 1) ELSE i

NoParse == [ok |-> FALSE, v |-> Null, next |-> 0]

Parsed(v, next) == [ok |-> TRUE, v |-> v, next |-> next]

DigitSeq == <<"0", "1", "2", "3", "4", "5", "6", "7", "8", "9">>

DigitValue(d) == (CHOOSE i \in 1..Len(DigitSeq) : DigitSeq[i] = d) - 1

RECURSIVE NumberValue(_)
NumberValue(ds) ==
    IF ds = <<>> THEN 0
    ELSE 10 * NumberValue(SubSeq(ds, 1, Len(ds) - 1)) + DigitValue(ds[Len(ds)])

\* The index after the digits that start at i.
RECURSIVE DigitsEnd(_, _)
DigitsEnd(cs, i) ==
    IF i <= Len(cs) /\ cs[i] \in Digits THEN DigitsEnd(cs, i + 1) ELSE i

\* A number at i: 0, or digits that do not start with 0.
ParseNumber(cs, i) ==
    IF cs[i] = "0" THEN Parsed(Num(0), i + 1)
    ELSE Parsed(Num(NumberValue(SubSeq(cs, i, DigitsEnd(cs, i) - 1))), DigitsEnd(cs, i))

\* A string at i (cs[i] is the opening quote): no raw control character in it.
ParseString(cs, i) ==
    LET closing == {j \in (i + 1)..Len(cs) : cs[j] = "\""}
    IN  IF closing = {} THEN NoParse
        ELSE LET j == Least(closing)
                 chars == SubSeq(cs, i + 1, j - 1)
             IN  IF \E k \in 1..Len(chars) : chars[k] \in ControlChars
                 THEN NoParse
                 ELSE Parsed(Str(chars), j + 1)

RECURSIVE ParseValue(_, _), ParseElements(_, _, _), ParseMembers(_, _, _)
\* A value after optional white space at i.
ParseValue(cs, i) ==
    LET at == SkipSpace(cs, i)
    IN  IF at > Len(cs) THEN NoParse
        ELSE IF cs[at] = "{" THEN
            LET in == SkipSpace(cs, at + 1)
            IN  IF in <= Len(cs) /\ cs[in] = "}"
                THEN Parsed(JsonObject(<<>>), in + 1)
                ELSE ParseMembers(cs, in, <<>>)
        ELSE IF cs[at] = "[" THEN
            LET in == SkipSpace(cs, at + 1)
            IN  IF in <= Len(cs) /\ cs[in] = "]"
                THEN Parsed(JsonArray(<<>>), in + 1)
                ELSE ParseElements(cs, in, <<>>)
        ELSE IF cs[at] = "\"" THEN ParseString(cs, at)
        ELSE IF cs[at] \in Digits THEN ParseNumber(cs, at)
        ELSE IF StartsWithAt(cs, at, <<"t", "r", "u", "e">>)
            THEN Parsed(Bool(TRUE), at + 4)
        ELSE IF StartsWithAt(cs, at, <<"f", "a", "l", "s", "e">>)
            THEN Parsed(Bool(FALSE), at + 5)
        ELSE IF StartsWithAt(cs, at, <<"n", "u", "l", "l">>)
            THEN Parsed(Null, at + 4)
        ELSE NoParse

\* The elements of an array from i on, items being those already read.
ParseElements(cs, i, items) ==
    LET e == ParseValue(cs, i)
        at == SkipSpace(cs, e.next)
    IN  IF ~e.ok \/ at > Len(cs) THEN NoParse
        ELSE IF cs[at] = "," THEN ParseElements(cs, at + 1, Append(items, e.v))
        ELSE IF cs[at] = "]" THEN Parsed(JsonArray(Append(items, e.v)), at + 1)
        ELSE NoParse

\* The members of an object from i on; a repeated key keeps its last value.
ParseMembers(cs, i, fields) ==
    IF i > Len(cs) \/ cs[i] # "\"" THEN NoParse
    ELSE LET k == ParseString(cs, i)
             colon == SkipSpace(cs, k.next)
         IN  IF ~k.ok \/ colon > Len(cs) \/ cs[colon] # ":" THEN NoParse
             ELSE LET m == ParseValue(cs, colon + 1)
                      at == SkipSpace(cs, m.next)
                      read == (k.v.s :> m.v) @@ fields
                  IN  IF ~m.ok \/ at > Len(cs) THEN NoParse
                      ELSE IF cs[at] = ","
                          THEN ParseMembers(cs, SkipSpace(cs, at + 1), read)
                      ELSE IF cs[at] = "}" THEN Parsed(JsonObject(read), at + 1)
                      ELSE NoParse

\* JSON.parse(cs): ok is FALSE where it throws.
JsonParse(cs) ==
    LET r == ParseValue(cs, 1)
    IN  IF r.ok /\ SkipSpace(cs, r.next) = Len(cs) + 1
        THEN [ok |-> TRUE, v |-> r.v]
        ELSE [ok |-> FALSE, v |-> Null]

\* s.replace(/^```(?:html|HTML|json)?\s*/i, "").replace(/```$/i, "")
stripCodeFences(s) ==
    IF s = <<>> THEN s
    ELSE LET tagged == \/ MatchesAt(s, 4, <<"h", "t", "m", "l">>)
                       \/ MatchesAt(s, 4, <<"j", "s", "o", "n">>)
             from == IF StartsWithAt(s, 1, Fence)
                     THEN SkipSpace(s, IF tagged THEN 8 ELSE 4)
                     ELSE 1
             opened == SubSeq(s, from, Len(s))
         IN  IF StartsWithAt(opened, Len(opened) - 2, Fence)
             THEN SubSeq(opened, 1, Len(opened) - 3)
             ELSE opened

\* Strategy 1: JSON.parse(text).
DirectParse(text) == JsonParse(text)

\* Strategy 2: JSON.parse(stripCodeFences(text)).
UnfencedParse(text) == JsonParse(stripCodeFences(text))

\* Smart quotes become plain quotes and control characters are dropped.
Cleaned(text) ==
    SelectSeq([i \in 1..Len(text) |->
                  IF text[i] \in SmartDouble THEN "\""
                  ELSE IF text[i] \in SmartSingle THEN "'"
                  ELSE text[i]],
              LAMBDA c : c \notin ControlChars)

\* Strategy 3: the block from the first "{" to the last "}" of the cleaned text.
BlockParse(text) ==
    LET c == Cleaned(text)
        opens == {i \in 1..Len(c) : c[i] = "{"}
        closes == {i \in 1..Len(c) : c[i] = "}"}
    IN  IF opens # {} /\ closes # {} /\ Greatest(closes) > Least(opens)
        THEN JsonParse(SubSeq(c, Least(opens), Greatest(closes)))
        ELSE [ok |-> FALSE, v |-> Null]

\* Strategy 4: text.match(/```json([\s\S]*?)```/i), group 1 parsed.
FencedJsonParse(text) ==
    LET tag == Fence \o <<"j", "s", "o", "n">>
        opens == {i \in 1..Len(text) : MatchesAt(text, i, tag)}
        closes(i) == {j \in (i + Len(tag))..Len(text) : StartsWithAt(text, j, Fence)}
    IN  IF opens # {} /\ closes(Least(opens)) # {}
        THEN JsonParse(SubSeq(text, Least(opens) + Len(tag),
                              Least(closes(Least(opens))) - 1))
        ELSE [ok |-> FALSE, v |-> Null]

parseJsonLenientFencedFirst(text) ==
    IF text = <<>> THEN [v |-> Null, by |-> 0, tried |-> 0]
    ELSE IF DirectParse(text).ok
        THEN [v |-> DirectParse(text).v, by |-> 1, tried |-> 1]
    ELSE IF UnfencedParse(text).ok
        THEN [v |-> UnfencedParse(text).v, by |-> 2, tried |-> 2]
    ELSE IF FencedJsonParse(text).ok
        THEN [v |-> FencedJsonParse(text).v, by |-> 4, tried |-> 3]
    ELSE IF BlockParse(text).ok
        THEN [v |-> BlockParse(text).v, by |-> 3, tried |-> 4]
    ELSE [v |-> Null, by |-> 0, tried |-> 4]

\* parseJsonLenient(text): v is the value returned, by the strategy that
\* returned it (0: none) and tried the number of strategies attempted.
parseJsonLenient(text) ==
    IF text = <<>> THEN [v |-> Null, by |-> 0, tried |-> 0]
    ELSE IF DirectParse(text).ok
        THEN [v |-> DirectParse(text).v, by |-> 1, tried |-> 1]
    ELSE IF UnfencedParse(text).ok
        THEN [v |-> UnfencedParse(text).v, by |-> 2, tried |-> 2]
    ELSE IF BlockParse(text).ok
        THEN [v |-> BlockParse(text).v, by |-> 3, tried |-> 3]
    ELSE IF FencedJsonParse(text).ok
        THEN [v |-> FencedJsonParse(text).v, by |-> 4, tried |-> 4]
    ELSE [v |-> Null, by |-> 0, tried |-> 4]

(***************************************************************************)
(* POST /api/parse-image and POST /api/parse-pdf.  The handler awaits the  *)
(* text extraction, the quiz generation call and one hint call for each    *)
(* question that has a text; what it does between two awaits is one step.  *)
(* A fixed message whose characters do not matter is a one-element string. *)
(***************************************************************************)
InputCeiling == 6000

RawCeiling == 4000

\* cs.slice(0, n)
Slice(cs, n) == SubSeq(cs, 1, IF Len(cs) < n THEN Len(cs) ELSE n)

RadixDigits == DigitSeq \o <<"a", "b", "c", "d", "e", "f", "g", "h", "i", "j", "k", "l", "m", "n", "o", "p", "q", "r", "s", "t", "u", "v", "w", "x", "y", "z">>

\* n.toString(radix), n >= 0
RECURSIVE ToRadix(_, _)
ToRadix(n, radix) ==
    IF n < radix THEN <<RadixDigits[n + 1]>>
    ELSE Append(ToRadix(n \div radix, radix), RadixDigits[(n % radix) + 1])

\* The truth value JavaScript gives v in a condition.
Truthy(v) ==
    CASE v.t \in {"undefined", "null"} -> FALSE
      [] v.t = "string" -> v.s # <<>>
      [] v.t = "number" -> v.n # 0
      [] v.t = "boolean" -> v.b
      [] OTHER -> TRUE

\* typeof v === 'object'
TypeofObject(v) == v.t \in {"null", "object", "array"}

\* v[key] where v is neither null nor undefined.
Get(v, key) ==
    IF v.t = "object" /\ key \in DOMAIN v.fields THEN v.fields[key] ELSE Undefined

KeyQuestions == <<"q", "u", "e", "s", "t", "i", "o", "n", "s">>

KeyQuestion == <<"q", "u", "e", "s", "t", "i", "o", "n">>

KeyPrompt == <<"p", "r", "o", "m", "p", "t">>

KeyHint == <<"h", "i", "n", "t">>

Thrown(message) == [ok |-> FALSE, content |-> <<>>, error |-> message]

Returned(content) == [ok |-> TRUE, content |-> content, error |-> <<>>]

\* extractImageText, recognized being the text the OCR engine recognised.
extractImageText(recognized) ==
    IF trim(recognized) = <<>>
    THEN Thrown(<<"No text extracted from image">>)
    ELSE Returned(trim(recognized))

\* extractPdfText, recognized being data.text of the PDF extractor.
extractPdfText(recognized) ==
    IF trim(recognized) = <<>>
    THEN Thrown(<<"No text extracted from PDF">>)
    ELSE Returned(trim(recognized))

\* What the generation service answers: status 0 stands for a fetch that
\* rejects, body being the message of its error.
Reply(status, body) == [status |-> status, body |-> body]

Pending == [status |-> -1, body |-> <<>>]

\* callOpenAI, reply being the outcome of its one fetch.
callOpenAI(reply) ==
    IF reply.status = 0 THEN Thrown(reply.body)
    ELSE IF reply.status \notin 200..299
        THEN Thrown(<<"OpenAI API error (">> \o ToRadix(reply.status, 10)
                        \o <<"): ">> \o reply.body)
    ELSE Returned(reply.body)

BaseSystemPrompt == "You are an expert quiz generator. ..."

EnsureJsonLine == "Return ONLY valid JSON per the schema above."

\* /json/i.test(cs)
TestsJson(cs) == \E i \in 1..Len(cs) : MatchesAt(cs, i, <<"j", "s", "o", "n">>)

\* req.body.prompt ? String(req.body.prompt) : ''
TeacherPrompt(prompt) == IF Truthy(prompt) THEN prompt.s ELSE <<>>

SystemContent(teacherPrompt) ==
    IF teacherPrompt # <<>>
    THEN <<BaseSystemPrompt, "\nTeacher instructions: ">> \o teacherPrompt
            \o (IF ~TestsJson(teacherPrompt) THEN <<"\n", EnsureJsonLine>> ELSE <<>>)
    ELSE <<BaseSystemPrompt>>

UserContentUncut(text) == text

\* The extracted text as the user message carries it.
UserContent(text) ==
    IF text # <<>> /\ Len(text) > InputCeiling THEN Slice(text, InputCeiling) ELSE text

QuizMessages(prompt, text) ==
    <<[role |-> "system", content |-> SystemContent(TeacherPrompt(prompt))],
      [role |-> "user", content |-> UserContent(text)]>>

HintMessages(questionText) ==
    <<[role |-> "system", content |-> <<"You are an expert teacher. ...">>],
      [role |-> "user", content |-> questionText]>>

\* !quizData || typeof quizData !== 'object'
Rejected(quizData) == ~Truthy(quizData) \/ ~TypeofObject(quizData)

RawUncut(aiResponse) == aiResponse

\* String(aiResponse).slice(0, 4000)
Raw(aiResponse) == Slice(aiResponse, RawCeiling)

\* The elements the hint loop walks: none unless questions is an array.
Questions(quizData) ==
    IF Get(quizData, KeyQuestions).t = "array"
    THEN Get(quizData, KeyQuestions).items
    ELSE <<>>

\* Reading q.question throws a TypeError where q is null.
ThrowsAt(q) == q.t = "null"

QuestionTextOfQuestionOnly(q) == Get(q, KeyQuestion)

\* q.question || q.prompt
QuestionText(q) ==
    IF Truthy(Get(q, KeyQuestion)) THEN Get(q, KeyQuestion) ELSE Get(q, KeyPrompt)

\* The first element from index from on at which the loop stops: to throw or
\* to call for a hint; Len(items) + 1 where it runs to its end.
NextStop(items, from) ==
    LET stops == {i \in from..Len(items) :
                     ThrowsAt(items[i]) \/ Truthy(QuestionText(items[i]))}
    IN  IF stops = {} THEN Len(items) + 1 ELSE Least(stops)

SetHintKeepingOnFailure(quizData, at, hint) ==
    IF hint.ok
    THEN JsonObject([quizData.fields EXCEPT ![KeyQuestions] =
            JsonArray([@.items EXCEPT ![at] =
                JsonObject((KeyHint :> Str(trim(hint.content))) @@ @.fields)])])
    ELSE quizData

\* q.hint = hint.trim(), or q.hint = '' where the call threw.
SetHint(quizData, at, hint) ==
    JsonObject([quizData.fields EXCEPT ![KeyQuestions] =
        JsonArray([@.items EXCEPT ![at] =
            JsonObject((KeyHint :> Str(IF hint.ok THEN trim(hint.content) ELSE <<>>))
                            @@ @.fields)])])

Busy(r) == req[r].pc \notin {"idle", "done"}

\* A call request r makes to the generation service, reply being its outcome.
Call(r, for, at, messages) ==
    [r |-> r, for |-> for, at |-> at, messages |-> messages, reply |-> Pending]

\* The path multer stores the upload under: Date.now().toString(36)-name.
UploadPath(now, file) == ToRadix(now, 36) \o <<"-">> \o file.s

Respond(r, status, out) ==
    req' = [req EXCEPT ![r].pc = "done", ![r].status = status, ![r].out = out]

\* The handler from the hint loop's element from on: slot is the request,
\* quizData the quiz as the hints so far have left it, log the calls made.
HintLoop(r, slot, quizData, from, log) ==
    LET items == Questions(quizData)
        stop == NextStop(items, from)
    IN  IF stop > Len(items) THEN
            /\ uploads' = uploads \ {req[r].path}
            /\ calls' = log
            /\ req' = [req EXCEPT ![r] =
                        [slot EXCEPT !.pc = "done", !.status = 200,
                                     !.quizData = quizData,
                                     !.out = [ok |-> TRUE, quiz |-> quizData]]]
        ELSE IF ThrowsAt(items[stop]) THEN
            /\ calls' = log
            /\ req' = [req EXCEPT ![r] =
                        [slot EXCEPT !.pc = "done", !.status = 500,
                                     !.quizData = quizData,
                                     !.out = [ok |-> FALSE,
                                              error |-> <<"Cannot read properties of null">>]]]
            /\ UNCHANGED uploads
        ELSE
            /\ calls' = Append(log, Call(r, "hint", stop,
                                         HintMessages(QuestionText(items[stop]))))
            /\ req' = [req EXCEPT ![r] =
                        [slot EXCEPT !.pc = "hint", !.at = stop,
                                     !.quizData = quizData]]
            /\ UNCHANGED uploads

\* The request arrives: multer has stored the file, if there is one.
PostParse(r, op, file, prompt) ==
    /\ ~Busy(r)
    /\ calls' = <<>>
    /\ IF file = Undefined
       THEN /\ req' = [req EXCEPT ![r] =
                        [op |-> op, pc |-> "done", path |-> <<>>, prompt |-> prompt,
                         extracted |-> <<>>, aiResponse |-> <<>>, parse |-> NoDoc,
                         quizData |-> Null, at |-> 0, status |-> 400,
                         out |-> [error |-> <<"No file uploaded">>]]]
            /\ UNCHANGED uploads
       ELSE /\ req' = [req EXCEPT ![r] =
                        [op |-> op, pc |-> "extract", path |-> UploadPath(clock, file),
                         prompt |-> prompt, extracted |-> <<>>, aiResponse |-> <<>>,
                         parse |-> NoDoc, quizData |-> Null, at |-> 0, status |-> 0,
                         out |-> NoDoc]]
            /\ uploads' = uploads \cup {UploadPath(clock, file)}
    /\ UNCHANGED <<attempts, quizzes, written, clock, chats>>

PostParseImage(r, file, prompt) == PostParse(r, "POST /api/parse-image", file, prompt)

PostParsePdf(r, file, prompt) == PostParse(r, "POST /api/parse-pdf", file, prompt)

\* The extraction returns or throws; on a text the generation call is made.
Extract(r, recognized) ==
    /\ req[r].pc = "extract"
    /\ LET text == IF req[r].op = "POST /api/parse-image"
                   THEN extractImageText(recognized)
                   ELSE extractPdfText(recognized)
       IN  IF text.ok
           THEN /\ req' = [req EXCEPT ![r].pc = "generate",
                                      ![r].extracted = text.content]
                /\ calls' = Append(calls,
                               Call(r, "quiz", 0, QuizMessages(req[r].prompt, text.content)))
           ELSE /\ Respond(r, 500, [ok |-> FALSE, error |-> text.error])
                /\ UNCHANGED calls
    /\ UNCHANGED <<attempts, quizzes, written, clock, chats, uploads>>

GenerateRetrying(r, reply) ==
    /\ req[r].pc = "generate"
    /\ calls' = Append([calls EXCEPT ![Len(calls)].reply = reply],
                       Call(r, "quiz", 0, calls[Len(calls)].messages))
    /\ UNCHANGED <<attempts, quizzes, written, clock, chats, uploads, req>>

\* The generation call returns or throws; the response is parsed and the
\* hint loop entered.
Generate(r, reply) ==
    /\ req[r].pc = "generate"
    /\ LET aiResponse == callOpenAI(reply)
           parse == parseJsonLenient(aiResponse.content)
           log == [calls EXCEPT ![Len(calls)].reply = reply]
       IN  IF ~aiResponse.ok
           THEN /\ Respond(r, 500, [ok |-> FALSE, error |-> aiResponse.error])
                /\ calls' = log
                /\ UNCHANGED uploads
           ELSE IF Rejected(parse.v)
           THEN /\ req' = [req EXCEPT ![r].pc = "done", ![r].status = 422,
                                      ![r].aiResponse = aiResponse.content,
                                      ![r].parse = parse,
                                      ![r].out = [ok |-> FALSE,
                                                  error |-> <<"OpenAI did not return valid JSON">>,
                                                  raw |-> Raw(aiResponse.content)]]
                /\ calls' = log
                /\ UNCHANGED uploads
           ELSE HintLoop(r, [req[r] EXCEPT !.aiResponse = aiResponse.content,
                                           !.parse = parse],
                         parse.v, 1, log)
    /\ UNCHANGED <<attempts, quizzes, written, clock, chats>>

\* A hint call returns or throws; the loop goes on with the next element.
Hint(r, reply) ==
    /\ req[r].pc = "hint"
    /\ HintLoop(r, req[r], SetHint(req[r].quizData, req[r].at, callOpenAI(reply)),
                req[r].at + 1, [calls EXCEPT ![Len(calls)].reply = reply])
    /\ UNCHANGED <<attempts, quizzes, written, clock, chats>>

(***************************************************************************)
(* POST /api/chats and GET /api/chats over the Chat collection.  A stored  *)
(* message is replaced as a whole by an upsert with its id.                *)
(***************************************************************************)
ChatLimit == 1000

ChatBody(id, role, text, content, message, meta, timestamp, teacherId) ==
    [id |-> id, role |-> role, text |-> text, content |-> content,
     message |-> message, meta |-> meta, timestamp |-> timestamp,
     teacherId |-> teacherId]

\* typeof v === 'string' && v
StringOf(v) == v.t = "string" /\ Truthy(v)

\* m && m[key]
Field(m, key) == IF Truthy(m) THEN Get(m, key) ELSE m

ResolvedText(body) ==
    IF StringOf(body.text) THEN body.text
    ELSE IF StringOf(body.content) THEN body.content
    ELSE IF StringOf(Field(body.message, <<"content">>)) THEN Field(body.message, <<"content">>)
    ELSE IF StringOf(Field(body.message, <<"text">>)) THEN Field(body.message, <<"text">>)
    ELSE Str(<<>>)

EffectiveRole(body) ==
    IF StringOf(body.role) THEN body.role
    ELSE IF StringOf(Field(body.message, <<"role">>)) THEN Field(body.message, <<"role">>)
    ELSE Str(<<"user">>)

EffectiveTeacherId(body) ==
    IF Truthy(body.teacherId) THEN body.teacherId
    ELSE IF Truthy(Field(body.message, <<"teacherId">>))
        THEN Field(body.message, <<"teacherId">>)
    ELSE Field(body.meta, <<"teacherId">>)

\* The document POST /api/chats stores.
ChatDoc(body, now) ==
    [id |-> IF Truthy(body.id) THEN body.id
            ELSE Str(<<"msg_">> \o ToRadix(now, 36)),
     role |-> EffectiveRole(body),
     text |-> ResolvedText(body),
     meta |-> body.meta,
     teacherId |-> EffectiveTeacherId(body),
     timestamp |-> IF Truthy(body.timestamp) THEN body.timestamp.n ELSE now]

PostChats(r, body) ==
    /\ ~Busy(r)
    /\ IF ~Truthy(EffectiveTeacherId(body))
       THEN /\ req' = [req EXCEPT ![r] =
                        [op |-> "POST /api/chats", pc |-> "done", body |-> body,
                         status |-> 400,
                         out |-> [ok |-> FALSE, error |-> <<"teacherId required">>]]]
            /\ UNCHANGED chats
       ELSE IF ~Truthy(ResolvedText(body)) \/ trim(ResolvedText(body).s) = <<>>
       THEN /\ req' = [req EXCEPT ![r] =
                        [op |-> "POST /api/chats", pc |-> "done", body |-> body,
                         status |-> 400,
                         out |-> [ok |-> FALSE, error |-> <<"text/content required">>]]]
            /\ UNCHANGED chats
       ELSE LET doc == ChatDoc(body, clock)
            IN  /\ chats' = FindOneAndUpdate(chats, doc.id, doc)
                /\ req' = [req EXCEPT ![r] =
                            [op |-> "POST /api/chats", pc |-> "done", body |-> body,
                             status |-> 200,
                             out |-> [ok |-> TRUE, chat |-> FindOne(chats', doc.id)]]]
    /\ UNCHANGED <<attempts, quizzes, written, clock, uploads, calls>>

\* Chat.find({ teacherId }).sort({ timestamp: 1 }).limit(1000): the order of
\* messages of one timestamp is the store's.
ChatLists(teacherId) ==
    LET found == {m \in chats : m.teacherId = teacherId}
    IN  {Slice(list, ChatLimit) :
            list \in {l \in [1..Cardinality(found) -> found] :
                        /\ \A i, j \in DOMAIN l : i # j => l[i] # l[j]
                        /\ \A i, j \in DOMAIN l : i < j => l[i].timestamp <= l[j].timestamp}}

GetChats(r, teacherId) ==
    /\ ~Busy(r)
    /\ IF ~Truthy(teacherId)
       THEN req' = [req EXCEPT ![r] =
                     [op |-> "GET /api/chats", pc |-> "done", body |-> teacherId,
                      status |-> 400,
                      out |-> [ok |-> FALSE, error |-> <<"teacherId required">>]]]
       ELSE \E list \in ChatLists(teacherId) :
                req' = [req EXCEPT ![r] =
                         [op |-> "GET /api/chats", pc |-> "done", body |-> teacherId,
                          status |-> 200, out |-> [ok |-> TRUE, chats |-> list]]]
    /\ UNCHANGED <<attempts, quizzes, written, clock, uploads, calls, chats>>

(***************************************************************************)
(* Inputs of the parse endpoints: uploads, what the extractors recognise   *)
(* and what the generation service answers.                                *)
(***************************************************************************)
Files == {Undefined, Str(<<"quiz.png">>)}

Prompts == {Undefined, Str(<<"h", "a", "r", "d">>), Str(<<"a", "s", " ", "J", "S", "O", "N">>)}

\* A text of n characters, no two of its prefixes alike.
LongText(n) == [i \in 1..n |-> <<"a", "b", "c">>[(i % 3) + 1]]

RecognizedTexts ==
    {<<" ", "\n">>, <<" ", "h", "i", "\n">>,
     <<" ">> \o LongText(InputCeiling) \o <<"\n">>, LongText(InputCeiling + 1)}

\* An object without questions.
TitleText ==
    <<"{", "\"", "t", "i", "t", "l", "e", "\"", ":", "\"", "T", "\"", "}">>

\* What the generation service may return as content.
RawTexts ==
    {TitleText,
     \* two questions that have a text and one that has none
     \* {"questions":[{"question":"Q"},{"question":"","prompt":"P"},{"question":""}]}
     <<"{", "\"", "q", "u", "e", "s", "t", "i", "o", "n", "s", "\"",
       ":", "[", "{", "\"", "q", "u", "e", "s", "t", "i", "o", "n",
       "\"", ":", "\"", "Q", "\"", "}", ",", "{", "\"", "q", "u", "e",
       "s", "t", "i", "o", "n", "\"", ":", "\"", "\"", ",", "\"", "p",
       "r", "o", "m", "p", "t", "\"", ":", "\"", "P", "\"", "}", ",",
       "{", "\"", "q", "u", "e", "s", "t", "i", "o", "n", "\"", ":",
       "\"", "\"", "}", "]", "}">>,
     \* a question and null
     \* {"questions":[{"question":"Q"},null]}
     <<"{", "\"", "q", "u", "e", "s", "t", "i", "o", "n", "s", "\"",
       ":", "[", "{", "\"", "q", "u", "e", "s", "t", "i", "o", "n",
       "\"", ":", "\"", "Q", "\"", "}", ",", "n", "u", "l", "l", "]",
       "}">>,
     \* an array, null, a number, a boolean and a string
     \* [1]
     <<"[", "1", "]">>,
     \* null
     <<"n", "u", "l", "l">>,
     \* 5
     <<"5">>,
     \* true
     <<"t", "r", "u", "e">>,
     \* "hi"
     <<"\"", "h", "i", "\"">>,
     \* a fenced object, and the same followed by a newline
     \* ```json\n{"a":1}\n```
     <<"u0060", "u0060", "u0060", "j", "s", "o", "n", "\n", "{", "\"",
       "a", "\"", ":", "1", "}", "\n", "u0060", "u0060", "u0060">>,
     \* ```json\n{"a":1}\n```\n
     <<"u0060", "u0060", "u0060", "j", "s", "o", "n", "\n", "{", "\"",
       "a", "\"", ":", "1", "}", "\n", "u0060", "u0060", "u0060", "\n">>,
     \* prose, smart quotes and a control character around an object
     <<"H", "e", "r", "e", ":", " ", "{", "u201C", "a", "u201D", ":",
       "1", "}", "u0007">>,
     \* a fenced array within prose
     \* x```JSON[1]```y
     <<"x", "u0060", "u0060", "u0060", "J", "S", "O", "N", "[", "1",
       "]", "u0060", "u0060", "u0060", "y">>,
     \* strategy 3 and strategy 4 both parse it, to different values
     \* ```json\n[1]\n``` {"a":1}
     <<"u0060", "u0060", "u0060", "j", "s", "o", "n", "\n", "[", "1",
       "]", "\n", "u0060", "u0060", "u0060", " ", "{", "\"", "a", "\"",
       ":", "1", "}">>,
     \* no JSON, nothing, and no JSON of more than 4000 characters
     \* not json
     <<"n", "o", "t", " ", "j", "s", "o", "n">>,
     <<>>, LongText(RawCeiling + 1)}

Quota == <<"q", "u", "o", "t", "a">>

\* The answers to a quiz generation call; few of them where the text is long.
GenerationReplies(call) ==
    IF Len(call.messages[2].content) >= InputCeiling
    THEN {Reply(200, TitleText), Reply(429, Quota)}
    ELSE {Reply(200, text) : text \in RawTexts}
            \cup {Reply(429, Quota), Reply(0, <<"fetch failed">>)}

HintReplies == {Reply(200, <<" ", "t", "i", "p", "\n">>), Reply(500, <<"d", "o", "w", "n">>)}

(***************************************************************************)
(* Inputs of the chat endpoints.                                           *)
(***************************************************************************)
Teacher(t) == Str(<<t>>)

\* Messages in the plain shape, with and without an id of the client's; the
\* other shapes the handler accepts; and bodies it refuses.
ChatBodies ==
    {ChatBody(id, Undefined, text, Undefined, Undefined, Undefined, Undefined, Teacher(t)) :
        id \in {Undefined, Str(<<"m1">>)},
        text \in {Str(<<"h", "i">>), Str(<<"y", "o">>)},
        t \in {"t1", "t2"}}
    \cup
    {ChatBody(Undefined, Undefined, Undefined, Str(<<"h", "i">>), Undefined, Undefined,
              Undefined, Teacher("t1")),
     ChatBody(Undefined, Undefined, Undefined, Undefined,
              JsonObject((<<"content">> :> Str(<<"h", "i">>))
                            @@ (<<"role">> :> Str(<<"assistant">>))
                            @@ (<<"teacherId">> :> Teacher("t1"))),
              Undefined, Undefined, Undefined),
     ChatBody(Str(<<"m1">>), Str(<<"assistant">>), Undefined, Undefined,
              JsonObject(<<"text">> :> Str(<<"y", "o">>)),
              JsonObject(<<"teacherId">> :> Teacher("t2")), Num(5), Undefined)}
    \cup
    {ChatBody(Undefined, Undefined, Str(<<"h", "i">>), Undefined, Undefined, Undefined,
              Undefined, Undefined),
     ChatBody(Undefined, Undefined, Undefined, Undefined, Undefined, Undefined,
              Undefined, Teacher("t1")),
     ChatBody(Undefined, Undefined, Str(<<" ">>), Undefined, Undefined, Undefined,
              Undefined, Teacher("t1"))}

QueryTeachers == {Undefined, Teacher("t1"), Teacher("t2")}

\* Date.now() advances between requests.
Tick ==
    /\ clock < MaxClock
    /\ clock' = clock + 1
    /\ UNCHANGED <<attempts, quizzes, req, written, uploads, calls, chats>>

Init ==
    /\ attempts = {}
    /\ quizzes = {}
    /\ req = [r \in Requests |-> IdleSlot]
    /\ written = [p \in Pairs |-> NoDoc]
    /\ clock = 0
    /\ uploads = {}
    /\ calls = <<>>
    /\ chats = {}

\* Saves that do not overlap: the client sends the next request on the same
\* connection after the response to the last one.
NextSeq ==
    \/ \E body \in SeqBodies : Quiet /\ PostAttemptsRead(1, body)
    \/ PostAttemptsWrite(1)
    \/ \E q \in QuizIds, e \in Emails : Quiet /\ GetAttempts(1, q, e)
    \/ Tick

SpecSeq == Init /\ [][NextSeq]_vars

\* Up to MaxRequests requests, in any interleaving of their awaits.
Next ==
    \/ \E r \in Requests, body \in ConcBodies : Arrives(r) /\ PostAttemptsRead(r, body)
    \/ \E r \in Requests : PostAttemptsWrite(r)
    \/ \E r \in Requests, q \in QuizIds, e \in Emails :
            Arrives(r) /\ GetAttempts(r, q, e)
    \/ Tick

Spec == Init /\ [][Next]_vars

\* The quiz endpoints, over a collection that holds quiz k1 with any allow-list.
InitQuiz ==
    /\ attempts = {}
    /\ quizzes \in {{StoredQuiz("k1", al)} : al \in AllowLists}
    /\ req = [r \in Requests |-> IdleSlot]
    /\ written = [p \in Pairs |-> NoDoc]
    /\ clock = 0
    /\ uploads = {}
    /\ calls = <<>>
    /\ chats = {}

NextQuiz ==
    \/ \E id \in QuizKeys, email \in QueryEmails : GetQuiz(1, id, email)
    \/ \E id \in QuizKeys, fj \in FinalizedJsons, fp \in FilePaths :
            PostQuiz(1, id, fj, fp)
    \/ Tick

SpecQuiz == InitQuiz /\ [][NextQuiz]_vars

\* The quiz endpoints over a collection that is empty when the server starts.
SpecEmpty == Init /\ [][NextQuiz]_vars

NextParse ==
    \/ \E file \in Files, prompt \in Prompts : PostParseImage(1, file, prompt)
    \/ \E file \in Files, prompt \in Prompts : PostParsePdf(1, file, prompt)
    \/ \E recognized \in RecognizedTexts : Extract(1, recognized)
    \/ /\ req[1].pc = "generate"
       /\ \E reply \in GenerationReplies(calls[Len(calls)]) : Generate(1, reply)
    \/ \E reply \in HintReplies : Hint(1, reply)

\* One parse request after the other, within one instant of the clock: the
\* time enters only the name under which an upload is stored.
SpecParse == Init /\ [][NextParse]_vars

NextChat ==
    \/ \E body \in ChatBodies : PostChats(1, body)
    \/ \E teacherId \in QueryTeachers : GetChats(1, teacherId)
    \/ Tick

\* Chat requests, one after the other.
SpecChat == Init /\ [][NextChat]_vars

(***************************************************************************)
(* Flat payloads: saves whose body carries answers as top-level keys.      *)
(***************************************************************************)
Q12 == <<"q", "1", "2">>

\* The values a payload may carry under each of its top-level keys: q1 and
\* q12, and q, Q1, q1a and quizId, which are no question keys.
TopValues ==
    (Q1 :> {Null, Str(<<" ">>), Str(<<"B">>)}) @@ (Q12 :> {Str(<<"C">>)})
        @@ (<<"q">> :> {Str(<<"X">>)}) @@ (<<"Q", "1">> :> {Str(<<"X">>)})
        @@ (<<"q", "1", "a">> :> {Str(<<"X">>)})
        @@ (<<"q", "u", "i", "z", "I", "d">> :> {Str(<<"z", "1">>)})

\* Saves of one student with any of these keys, with and without the nested
\* answers object.
KeyBodies ==
    {Body("z1", "a@x.com", 0, 2, FALSE, a # EmptyObject, a, FALSE, EmptyObject, t) :
        a \in {EmptyObject, Q2 :> Str(<<"A">>)}, t \in Objects(TopValues)}

NextFlat ==
    \/ \E body \in KeyBodies : Quiet /\ PostAttemptsRead(1, body)
    \/ PostAttemptsWrite(1)

\* One flat save after the other, within one instant of the clock.
SpecFlat == Init /\ [][NextFlat]_vars

(***************************************************************************)
(* Saves of pairs whose quiz id or address holds the separator "::".       *)
(***************************************************************************)
IsoQuizIds == {"z1", "z1::a"}

IsoEmails == {"b", "a::b"}

IsoPairs == IsoQuizIds \X IsoEmails

IsoBodies ==
    {Body(p[1], p[2], 0, 2, FALSE, TRUE, a, FALSE, EmptyObject, EmptyObject) :
        p \in IsoPairs, a \in {Q1 :> Str(<<"A">>), Q2 :> Str(<<"B">>)}}

InitIso ==
    /\ attempts = {}
    /\ quizzes = {}
    /\ req = [r \in Requests |-> IdleSlot]
    /\ written = [p \in IsoPairs |-> NoDoc]
    /\ clock = 0
    /\ uploads = {}
    /\ calls = <<>>
    /\ chats = {}

NextIso ==
    \/ \E body \in IsoBodies : Quiet /\ PostAttemptsRead(1, body)
    \/ PostAttemptsWrite(1)
    \/ \E p \in IsoPairs : Quiet /\ GetAttempts(1, p[1], p[2])

\* Saves and reads of these pairs, one after the other.
SpecIso == InitIso /\ [][NextIso]_vars

(***************************************************************************)
(* Properties of the attempt merge.                                        *)
(***************************************************************************)
\* A value the merge treats as empty: null, or a string of white space only.
IsBlank(v) ==
    \/ v.t = "null"
    \/ v.t = "string" /\ \A i \in 1..Len(v.s) : v.s[i] \in WhiteSpace

Stored(body) == FindOne(attempts, AttemptId(body.quizId, body.email))

AnswersOf(d) == IF d = NoDoc THEN EmptyObject ELSE d.answers

ProgressOf(d) == IF d = NoDoc THEN EmptyObject ELSE d.progress

Saved(r) ==
    req[r].op = "POST /api/attempts" /\ req[r].pc = "done" /\ req[r].status = 200

\* The step in which request r's upsert is applied and answered.
Saves(r) == InFlight(r) /\ req'[r].pc = "done"

\* C1: in saves that do not overlap, a stored answer that is not blank is left
\* as it is by a save whose incoming value for that key is null or a string of
\* white space only (the empty string included).
AnswerMonotonicity ==
    [][\A r \in Requests : Saves(r) =>
          LET before == AnswersOf(Stored(req[r].body))
              after == AnswersOf(FindOne(attempts', req[r].doc.id))
              incoming == IncomingAnswers(req[r].body)
          IN  \A k \in DOMAIN before \cap DOMAIN incoming :
                  (~IsBlank(before[k]) /\ IsBlank(incoming[k]))
                      => (k \in DOMAIN after /\ after[k] = before[k])]_vars

AnswerMonotonicityWitness ==
    \E r \in Requests :
        /\ Saved(r)
        /\ req[r].existing # NoDoc
        /\ Q1 \in DOMAIN req[r].existing.answers
        /\ req[r].existing.answers[Q1] = Str(<<"A">>)
        /\ req[r].body.hasAnswers
        /\ Q1 \in DOMAIN req[r].body.answers
        /\ req[r].body.answers[Q1] = Str(<<" ">>)
        /\ Stored(req[r].body).answers[Q1] = Str(<<"A">>)

\* C3: the answers stored by a save are the answers it read with every incoming
\* answer applied: null and white-space strings skipped, any other value written
\* under its key, and every other key as it was.
AnswerMergeResult ==
    \A r \in Requests : Saved(r) =>
        LET before == AnswersOf(req[r].existing)
            after == AnswersOf(Stored(req[r].body))
            incoming == IncomingAnswers(req[r].body)
            written_ == {k \in DOMAIN incoming : ~IsBlank(incoming[k])}
        IN  /\ Stored(req[r].body) # NoDoc
            /\ DOMAIN after = DOMAIN before \cup written_
            /\ \A k \in written_ : after[k] = incoming[k]
            /\ \A k \in DOMAIN before \ written_ : after[k] = before[k]

AnswerMergeResultWitness ==
    \E r \in Requests :
        /\ Saved(r)
        /\ req[r].existing # NoDoc
        /\ req[r].existing.answers = (Q1 :> Str(<<"A">>)) @@ (Q2 :> Str(<<"A">>))
        /\ req[r].body.hasAnswers
        /\ req[r].body.answers = (Q1 :> Str(<<"B">>)) @@ (Q2 :> Null)
        /\ Stored(req[r].body).answers = (Q1 :> Str(<<"B">>)) @@ (Q2 :> Str(<<"A">>))

\* C4: the progress stored by a save is the progress it read with every incoming
\* progress entry applied: only null is skipped, and any other value, an empty
\* or white-space string included, is written under its key.
ProgressMergeRule ==
    \A r \in Requests : Saved(r) =>
        LET before == ProgressOf(req[r].existing)
            after == ProgressOf(Stored(req[r].body))
            incoming == IncomingProgress(req[r].body)
            written_ == {k \in DOMAIN incoming : incoming[k].t # "null"}
        IN  /\ Stored(req[r].body) # NoDoc
            /\ DOMAIN after = DOMAIN before \cup written_
            /\ \A k \in written_ : after[k] = incoming[k]
            /\ \A k \in DOMAIN before \ written_ : after[k] = before[k]

ProgressMergeRuleWitness ==
    \E r \in Requests :
        /\ Saved(r)
        /\ req[r].existing # NoDoc
        /\ req[r].existing.progress = (P1 :> Num(5))
        /\ req[r].body.hasProgress
        /\ req[r].body.progress = (P1 :> Null)
        /\ Stored(req[r].body).progress = (P1 :> Num(5))

\* The fields idempotence is about: all but submittedAt.
MergedFields(d) ==
    [answers |-> d.answers, progress |-> d.progress, score |-> d.score,
     totalQuestions |-> d.totalQuestions, submitted |-> d.submitted]

\* The step in which request r arrives as a save, is read for and merged.
Merges(r) ==
    /\ req[r].pc # "update"
    /\ req'[r].pc = "update"
    /\ req'[r].op = "POST /api/attempts"

\* C2: when a save is followed at once by a save with the same payload, the
\* second stores the answers, progress, score, totalQuestions and submitted that
\* the first stored, whatever the attempt was before the first (absent included).
MergeIdempotence ==
    [][\A r \in Requests :
          /\ (Saved(r) /\ Merges(r) /\ req'[r].body = req[r].body)
                => MergedFields(req'[r].doc) = MergedFields(req[r].out)
          /\ Saves(r) => FindOne(attempts', req[r].doc.id) = req[r].doc]_vars

\* The second of two equal saves of an attempt that did not exist before them.
MergeIdempotenceWitness ==
    \E r \in Requests :
        /\ Saved(r)
        /\ req[r].existing # NoDoc
        /\ req[r].existing =
              AttemptDoc(NoDoc, req[r].body, req[r].existing.submittedAt)
        /\ req[r].body.hasAnswers
        /\ req[r].body.answers = (Q1 :> Str(<<"B">>)) @@ (Q2 :> Null)
        /\ MergedFields(Stored(req[r].body)) = MergedFields(req[r].existing)
        /\ Stored(req[r].body).submittedAt > req[r].existing.submittedAt

\* C5: a stored progress value that is not empty is left as it is by a save
\* whose incoming progress value for that key is null or the empty string.
ProgressNonErasure ==
    [][\A r \in Requests : Saves(r) =>
          LET before == ProgressOf(Stored(req[r].body))
              after == ProgressOf(FindOne(attempts', req[r].doc.id))
              incoming == IncomingProgress(req[r].body)
          IN  \A k \in DOMAIN before \cap DOMAIN incoming :
                  (/\ before[k] \notin {Null, Str(<<>>)}
                   /\ incoming[k] \in {Null, Str(<<>>)})
                      => (k \in DOMAIN after /\ after[k] = before[k])]_vars

\* C6: every save stores the score, totalQuestions and submitted of its payload,
\* whatever was stored before, and stamps submittedAt with the time at which it
\* is handled, submitted or not.
ScalarOverwrite ==
    [][\A r \in Requests :
          /\ Merges(r) => req'[r].doc.submittedAt = clock
          /\ Saves(r) =>
                LET after == FindOne(attempts', req[r].doc.id)
                IN  /\ after # NoDoc
                    /\ after.score = req[r].body.score
                    /\ after.totalQuestions = req[r].body.totalQuestions
                    /\ after.submitted = req[r].body.submitted
                    /\ after.submittedAt = req[r].doc.submittedAt]_vars

ScalarOverwriteWitness ==
    \E r \in Requests :
        /\ Saved(r)
        /\ req[r].existing # NoDoc
        /\ req[r].existing.submitted
        /\ ~req[r].body.submitted
        /\ req[r].existing.score # req[r].body.score
        /\ req[r].existing.totalQuestions # req[r].body.totalQuestions
        /\ Stored(req[r].body).score = req[r].body.score
        /\ Stored(req[r].body).totalQuestions = req[r].body.totalQuestions
        /\ ~Stored(req[r].body).submitted
        /\ Stored(req[r].body).submittedAt > req[r].existing.submittedAt

\* C9: an attempt stored with submitted = true stays stored with submitted = true.
SubmittedIsTerminal ==
    [][\A p \in Pairs :
          LET before == FindOne(attempts, AttemptId(p[1], p[2]))
              after == FindOne(attempts', AttemptId(p[1], p[2]))
          IN  (before # NoDoc /\ before.submitted)
                  => (after # NoDoc /\ after.submitted)]_vars

(***************************************************************************)
(* Properties of the attempt collection.                                   *)
(***************************************************************************)
\* The step in which request r is answered as a GET /api/attempts.
Gets(r) == req'[r] # req[r] /\ req'[r].op = "GET /api/attempts"

PairOf(body) == <<body.quizId, body.email>>

\* C7: an attempt is stored under quizId::email, the collection never holds two
\* attempts with one id, however the saves interleave, and GET /api/attempts
\* answers with the attempt the latest save of that pair wrote.
AttemptIdentity ==
    [][/\ \A d \in attempts' : d.id = d.quizId \o "::" \o d.email
       /\ \A d1, d2 \in attempts' : d1.id = d2.id => d1 = d2
       /\ \A r \in Requests : Gets(r) =>
             (written[PairOf(req'[r].body)] # NoDoc
                => (req'[r].status = 200
                    /\ req'[r].out = written[PairOf(req'[r].body)]))]_vars

\* Two saves of one pair that both read before either wrote, then a GET.
AttemptIdentityWitness ==
    \E r1, r2, r3 \in Requests :
        /\ r1 # r2
        /\ Saved(r1) /\ Saved(r2)
        /\ PairOf(req[r1].body) = PairOf(req[r2].body)
        /\ req[r1].existing = NoDoc /\ req[r2].existing = NoDoc
        /\ req[r3].op = "GET /api/attempts"
        /\ req[r3].body = [quizId |-> req[r1].body.quizId, email |-> req[r1].body.email]
        /\ req[r3].status = 200
        /\ req[r3].out = written[PairOf(req[r1].body)]
        /\ Cardinality({d \in attempts : d.id = req[r1].doc.id}) = 1

\* C8: an attempt exists from the first save of its pair on and is never
\* deleted; GET /api/attempts answers 404 exactly when no save of the pair has
\* been applied yet, and with the attempt otherwise.
AttemptLifecycle ==
    [][/\ \A d \in attempts : \E e \in attempts' : e.id = d.id
       /\ \A p \in Pairs :
             (FindOne(attempts', AttemptId(p[1], p[2])) # NoDoc) <=> (written'[p] # NoDoc)
       /\ \A r \in Requests : Gets(r) =>
             /\ (req'[r].status = 404) <=> (written[PairOf(req'[r].body)] = NoDoc)
             /\ (req'[r].status = 200) <=> (written[PairOf(req'[r].body)] # NoDoc)
             /\ (req'[r].status = 200) => (req'[r].out # NoDoc)]_vars

\* A GET answered 404 before the first save of a pair and 200 after it, with
\* the attempt of the other pair stored as well.
AttemptLifecycleWitness ==
    \E r1, r2, r3 \in Requests :
        /\ r1 < r2 /\ r2 < r3
        /\ req[r1].op = "GET /api/attempts" /\ req[r1].status = 404
        /\ Saved(r2) /\ PairOf(req[r2].body) = PairOf(req[r1].body)
        /\ req[r3].op = "GET /api/attempts" /\ req[r3].status = 200
        /\ req[r3].body = req[r1].body

(***************************************************************************)
(* Properties of GET /api/quizzes/:id.                                     *)
(***************************************************************************)
GotQuiz(r) == req[r].op = "GET /api/quizzes/:id" /\ req[r].pc = "done"

Members(q) ==
    IF q.allowedStudents.isArray
    THEN {q.allowedStudents.items[i] : i \in 1..Len(q.allowedStudents.items)}
    ELSE {}

\* C10: a quiz that does not exist is answered 404 whatever the email; a quiz
\* with a non-empty allow-list is answered 403 when the email is missing or
\* not on the list and 200 with the quiz and its file URL when it is on the
\* list; a quiz whose allow-list is empty or unset is answered 200 for any
\* email and for none.
QuizAllowList ==
    \A r \in Requests : GotQuiz(r) =>
        LET q == FindOne(quizzes, req[r].body.id)
            email == req[r].body.email
        IN  /\ (\A d \in quizzes : d.id # req[r].body.id) => req[r].status = 404
            /\ (q # NoDoc /\ Members(q) # {} /\ email \notin Members(q))
                  => req[r].status = 403
            /\ (q # NoDoc /\ Members(q) # {} /\ email \in Members(q))
                  => (req[r].status = 200 /\ req[r].out.quiz = q
                      /\ "fileUrl" \in DOMAIN req[r].out)
            /\ (q # NoDoc /\ Members(q) = {})
                  => (req[r].status = 200 /\ req[r].out.quiz = q
                      /\ "fileUrl" \in DOMAIN req[r].out)

QuizAllowListWitness ==
    \E r \in Requests :
        /\ GotQuiz(r)
        /\ req[r].body.email = Address("b@x.com")
        /\ req[r].status = 403
        /\ FindOne(quizzes, req[r].body.id).allowedStudents = Array(<<Address("a@x.com")>>)

\* C26: no endpoint writes allowedStudents: over a collection that starts
\* empty, every stored quiz has the empty allow-list whatever requests have
\* been made, and GET /api/quizzes/:id never answers 403.
AllowListNeverSet ==
    /\ \A q \in quizzes : q.allowedStudents = Array(<<>>)
    /\ \A r \in Requests : GotQuiz(r) => req[r].status # 403

\* A quiz created and updated through POST /api/quizzes and stored with a
\* later updatedAt, and a GET of it without an email answered 200.
AllowListNeverSetWitness ==
    \E r \in Requests :
        /\ GotQuiz(r)
        /\ req[r].body.email = Undefined
        /\ req[r].status = 200
        /\ req[r].out.quiz = FindOne(quizzes, req[r].body.id)
        /\ req[r].out.quiz.updatedAt > 0
        /\ req[r].out.quiz.allowedStudents = Array(<<>>)

(***************************************************************************)
(* Properties of the parse endpoints.  calls is the log of the calls made  *)
(* for the request being handled; its first entry is the quiz generation   *)
(* call.                                                                   *)
(***************************************************************************)
ParseOps == {"POST /api/parse-image", "POST /api/parse-pdf"}

Parsing(r) == req[r].op \in ParseOps

Answered(r) == req[r].pc = "done"

\* The generation service has answered request r's quiz call with a text.
Generated(r) ==
    /\ Parsing(r)
    /\ calls # <<>>
    /\ calls[1].r = r /\ calls[1].for = "quiz"
    /\ calls[1].reply.status \in 200..299

\* That text.
ModelText == calls[1].reply.body

\* The outcomes of the four strategies on a text, in the order of the code.
Outcomes(text) ==
    <<DirectParse(text), UnfencedParse(text), BlockParse(text), FencedJsonParse(text)>>

NoStrategyParses(text) == \A i \in 1..4 : ~Outcomes(text)[i].ok

HintCallsOf(r) == {k \in DOMAIN calls : calls[k].r = r /\ calls[k].for = "hint"}

NonObjectRejected ==
    \A r \in Requests :
        (Generated(r) /\ Answered(r) /\ parseJsonLenient(ModelText).v.t # "object") =>
            /\ req[r].status = 422
            /\ req[r].out.ok = FALSE
            /\ "quiz" \notin DOMAIN req[r].out

\* C13: once the model's response has been parsed into a quiz object whose
\* questions are objects, the request is answered 200 with ok true and the
\* quiz whichever hint calls fail: a question whose call failed has the hint
\* "", a question whose call returned has the trimmed text, each by its own
\* call alone.
HintFailureIsolation ==
    \A r \in Requests :
        (/\ Generated(r) /\ Answered(r)
         /\ parseJsonLenient(ModelText).v.t = "object"
         /\ \A i \in 1..Len(Questions(parseJsonLenient(ModelText).v)) :
                Questions(parseJsonLenient(ModelText).v)[i].t = "object") =>
            /\ req[r].status = 200
            /\ DOMAIN req[r].out = {"ok", "quiz"}
            /\ req[r].out.ok = TRUE
            /\ \A k \in HintCallsOf(r) :
                  Get(Questions(req[r].out.quiz)[calls[k].at], KeyHint) =
                     Str(IF calls[k].reply.status \in 200..299
                         THEN trim(calls[k].reply.body)
                         ELSE <<>>)

\* Of two hint calls of one request the first failed and the second returned,
\* and of two of another the second failed and the first returned.
HintFailureIsolationWitness ==
    \E r \in Requests :
        /\ Generated(r) /\ Answered(r) /\ req[r].status = 200
        /\ \E j, k \in HintCallsOf(r) :
              /\ calls[j].reply.status \notin 200..299
              /\ calls[k].reply.status \in 200..299
              /\ j < k
              /\ Get(Questions(req[r].out.quiz)[calls[j].at], KeyHint) = Str(<<>>)
              /\ Get(Questions(req[r].out.quiz)[calls[k].at], KeyHint) = Str(<<"t", "i", "p">>)

StrategyOrder ==
    \A r \in Requests :
        (Generated(r) /\ req[r].parse # NoDoc /\ ModelText # <<>>) =>
            LET parse == req[r].parse
                parsing == {i \in 1..4 : Outcomes(ModelText)[i].ok}
            IN  /\ parsing = {} =>
                      parse.by = 0 /\ parse.tried = 4 /\ parse.v = Null
                /\ parsing # {} =>
                      /\ parse.by = Least(parsing)
                      /\ parse.tried = Least(parsing)
                      /\ parse.v = Outcomes(ModelText)[Least(parsing)].v
                /\ JsonParse(ModelText).ok =>
                      /\ parse.by = 1 /\ parse.tried = 1
                      /\ parse.v = JsonParse(ModelText).v

\* A text the third strategy parses to an object and the fourth to an array.
StrategyOrderWitness ==
    \E r \in Requests :
        /\ Generated(r) /\ req[r].parse # NoDoc
        /\ req[r].parse.by = 3
        /\ FencedJsonParse(ModelText).ok
        /\ FencedJsonParse(ModelText).v # req[r].parse.v
        /\ req[r].status = 200

\* An element of questions that has a text: a question or, failing that, a
\* prompt that is neither empty nor null, 0 or false.
HasText(q) ==
    /\ q.t = "object"
    /\ \/ KeyQuestion \in DOMAIN q.fields /\ Truthy(q.fields[KeyQuestion])
       \/ KeyPrompt \in DOMAIN q.fields /\ Truthy(q.fields[KeyPrompt])

\* C19: the hint calls of a parse request are made for the elements of
\* questions that have a text and for no other, one call for each, in the
\* order of the array and one at a time; the response is sent after the last
\* call has returned, and an element without a text is answered as it was
\* parsed, without a hint.
HintCoverage ==
    \A r \in Requests :
        (Generated(r) /\ parseJsonLenient(ModelText).v.t = "object") =>
            LET items == Questions(parseJsonLenient(ModelText).v)
            IN  /\ \A k \in HintCallsOf(r) :
                      /\ calls[k].at \in 1..Len(items)
                      /\ HasText(items[calls[k].at])
                      /\ \A i \in 1..(calls[k].at - 1) :
                            HasText(items[i]) =>
                                \E j \in HintCallsOf(r) : j < k /\ calls[j].at = i
                /\ \A j, k \in HintCallsOf(r) : j < k => calls[j].at < calls[k].at
                /\ \A k \in DOMAIN calls : k < Len(calls) => calls[k].reply # Pending
                /\ Answered(r) => \A k \in DOMAIN calls : calls[k].reply # Pending
                /\ (Answered(r) /\ req[r].status = 200) =>
                      \A i \in 1..Len(items) :
                          /\ HasText(items[i]) <=> \E k \in HintCallsOf(r) : calls[k].at = i
                          /\ ~HasText(items[i]) => Questions(req[r].out.quiz)[i] = items[i]

\* A quiz answered after two hint calls, one for a question and one for a
\* prompt, whose third element has no text and no hint.
HintCoverageWitness ==
    \E r \in Requests :
        /\ Generated(r) /\ Answered(r) /\ req[r].status = 200
        /\ Cardinality(HintCallsOf(r)) = 2
        /\ \E k \in HintCallsOf(r) :
              ~Truthy(Get(Questions(req[r].out.quiz)[calls[k].at], KeyQuestion))
        /\ \E i \in 1..Len(Questions(req[r].out.quiz)) :
              /\ ~HasText(Questions(req[r].out.quiz)[i])
              /\ Get(Questions(req[r].out.quiz)[i], KeyHint) = Undefined

\* sub occurs in cs.
Contains(cs, sub) == \E i \in 1..Len(cs) : StartsWithAt(cs, i, sub)

\* C20: a parse request calls the generation service once for the quiz, from
\* the extraction of a text on and not before, and at most once for the hint
\* of a question; a call that failed is not made again, and where the quiz
\* call is refused the request is answered 500 with an error that holds the
\* status and the body of the refusal.
NoRetries ==
    \A r \in Requests :
        Parsing(r) =>
            /\ Cardinality({k \in DOMAIN calls : calls[k].r = r /\ calls[k].for = "quiz"})
                  = (IF req[r].extracted # <<>> THEN 1 ELSE 0)
            /\ \A j, k \in HintCallsOf(r) : j # k => calls[j].at # calls[k].at
            /\ \A k \in DOMAIN calls :
                  (calls[k].for = "quiz" /\ calls[k].reply # Pending
                   /\ calls[k].reply.status \notin 200..299) =>
                      /\ Len(calls) = k
                      /\ Answered(r)
                      /\ req[r].status = 500
                      /\ req[r].out.ok = FALSE
                      /\ calls[k].reply.status # 0 =>
                            /\ Contains(req[r].out.error, ToRadix(calls[k].reply.status, 10))
                            /\ Contains(req[r].out.error, calls[k].reply.body)

\* A quiz call refused with 429, answered 500 after that one call.
NoRetriesWitness ==
    \E r \in Requests :
        /\ Parsing(r) /\ Answered(r) /\ req[r].status = 500
        /\ Len(calls) = 1
        /\ calls[1].reply.status = 429
        /\ Contains(req[r].out.error, <<"4", "2", "9">>)
        /\ Contains(req[r].out.error, Quota)

\* The tags of an opening marker: none, json and html.
FenceTags == {<<>>, <<"j", "s", "o", "n">>, <<"h", "t", "m", "l">>}

\* The contents a text wraps: what stands between an opening marker at its
\* start and a closing marker that only white space follows.
Wrapped(text) ==
    {SubSeq(text, 4 + Len(p[1]), p[2] - 1) :
        p \in {q \in FenceTags \X (1..Len(text)) :
                  /\ StartsWithAt(text, 1, Fence \o q[1])
                  /\ q[2] >= 4 + Len(q[1])
                  /\ StartsWithAt(text, q[2], Fence)
                  /\ SkipSpace(text, q[2] + 3) = Len(text) + 1}}

\* C21: where the model's response is valid JSON between an opening marker,
\* untagged or tagged json or html, and a closing marker, white space or a
\* newline after the closing marker included, the second strategy
\* (stripCodeFences, then JSON.parse) yields the value that parsing the
\* content itself yields.
FenceStrippingEquivalence ==
    \A r \in Requests :
        (Generated(r) /\ req[r].parse # NoDoc) =>
            \A content \in Wrapped(ModelText) :
                JsonParse(content).ok =>
                    /\ UnfencedParse(ModelText).ok
                    /\ UnfencedParse(ModelText).v = JsonParse(content).v

\* C23: a parse request that received a file has removed the upload by the
\* time it is answered, whatever the answer: 200, 422 or 500.
UploadCleanup ==
    \A r \in Requests :
        (Parsing(r) /\ Answered(r) /\ req[r].path # <<>>) =>
            req[r].path \notin uploads

(***************************************************************************)
(* Properties of the chat log and of the responses.                        *)
(***************************************************************************)
\* C15: a chat message, once stored, stays stored with its id, role, text,
\* teacherId and timestamp through every later POST /api/chats.
ChatAppendOnly ==
    [][\A m \in chats : \E n \in chats' :
          /\ n.id = m.id /\ n.role = m.role /\ n.text = m.text
          /\ n.teacherId = m.teacherId /\ n.timestamp = m.timestamp]_vars

\* C16: a response that is not a success (400, 403, 404, 422, 500) is a JSON
\* object with ok false and an error.
ErrorEnvelope ==
    \A r \in Requests :
        (Answered(r) /\ req[r].status >= 400) =>
            /\ {"ok", "error"} \subseteq DOMAIN req[r].out
            /\ req[r].out.ok = FALSE

(***************************************************************************)
(* Saves of one pair that overlap.                                         *)
(***************************************************************************)
\* Requests r1 and r2 saved the same pair from the same snapshot, and r2's
\* upsert is the latest applied for the pair.
Overlapped(r1, r2) ==
    /\ r1 # r2
    /\ Saved(r1) /\ Saved(r2)
    /\ PairOf(req[r1].body) = PairOf(req[r2].body)
    /\ req[r1].existing = req[r2].existing
    /\ written[PairOf(req[r2].body)] = req[r2].doc

\* C17: where two saves of one pair have both read the same snapshot, the
\* upsert applied later replaces the answers and the progress as a whole: the
\* stored attempt holds the later writer's merge of the snapshot with its own
\* body, and of the earlier writer's answers only the keys that the snapshot
\* or the later body has as well.
LostUpdate ==
    \A r1, r2 \in Requests :
        Overlapped(r1, r2) =>
            /\ Stored(req[r2].body).answers = req[r2].doc.answers
            /\ Stored(req[r2].body).progress = req[r2].doc.progress
            /\ \A k \in DOMAIN Stored(req[r2].body).answers :
                  \/ k \in DOMAIN AnswersOf(req[r2].existing)
                  \/ k \in DOMAIN IncomingAnswers(req[r2].body)

\* The stored attempt lacks an answer key that the earlier writer had stored.
LostUpdateWitness ==
    \E r1, r2 \in Requests :
        /\ Overlapped(r1, r2)
        /\ \E k \in DOMAIN req[r1].doc.answers :
              /\ ~IsBlank(req[r1].doc.answers[k])
              /\ k \notin DOMAIN Stored(req[r2].body).answers

(***************************************************************************)
(* Flat payloads.                                                          *)
(***************************************************************************)
\* The top-level keys of the model that are the letter q and digits only.
QuestionKeys == {Q1, Q12}

NestedOf(body) == IF body.hasAnswers THEN body.answers ELSE EmptyObject

\* C22: a top-level key of a save's payload is an answer entry exactly when it
\* is the letter q followed by digits and nothing else: the value under q1 or
\* q12 is stored under that key unless it is null or white space only, in
\* which case the key is left as it was stored, and the value under q, Q1,
\* q1a or quizId is never stored as an answer.
QuestionKeyCollection ==
    \A r \in Requests : Saved(r) =>
        LET top == req[r].body.top
            nested == NestedOf(req[r].body)
            before == AnswersOf(req[r].existing)
            after == AnswersOf(Stored(req[r].body))
        IN  \A k \in DOMAIN top :
              /\ (k \in QuestionKeys /\ ~IsBlank(top[k])) =>
                    (k \in DOMAIN after /\ after[k] = top[k])
              /\ ((k \in QuestionKeys /\ IsBlank(top[k]))
                     \/ (k \notin QuestionKeys /\ k \notin DOMAIN nested)) =>
                    /\ k \in DOMAIN after <=> k \in DOMAIN before
                    /\ k \in DOMAIN before => after[k] = before[k]

\* A save with q12, q, Q1, q1a, quizId and a blank q1 at its top level, over
\* an attempt that holds q1: q12 is stored, q1 kept and no other key added.
QuestionKeyCollectionWitness ==
    \E r \in Requests :
        /\ Saved(r)
        /\ DOMAIN req[r].body.top = DOMAIN TopValues
        /\ req[r].body.top[Q1] = Str(<<" ">>)
        /\ ~req[r].body.hasAnswers
        /\ req[r].existing # NoDoc
        /\ req[r].existing.answers = (Q1 :> Str(<<"B">>))
        /\ Stored(req[r].body).answers = (Q1 :> Str(<<"B">>)) @@ (Q12 :> Str(<<"C">>))

\* C24: a value that is not blank under a key of the nested answers of a save
\* is not masked by the top level of the payload: the answer stored under the
\* key after the save is a value of the payload that is not blank, the nested
\* one or the top-level one, also where the top-level value of the key is
\* null or white space only.
NestedNotMasked ==
    \A r \in Requests : Saved(r) =>
        LET top == req[r].body.top
            nested == NestedOf(req[r].body)
            after == AnswersOf(Stored(req[r].body))
        IN  \A k \in DOMAIN nested :
                ~IsBlank(nested[k]) =>
                    /\ k \in DOMAIN after
                    /\ ~IsBlank(after[k])
                    /\ \/ after[k] = nested[k]
                       \/ k \in DOMAIN top /\ after[k] = top[k]

(***************************************************************************)
(* Isolation of the attempts of different pairs.                           *)
(***************************************************************************)
AttemptOf(coll, p) == FindOne(coll, AttemptId(p[1], p[2]))

\* C25: a save of the pair (quizId, email) reads the attempt of that pair or
\* none, and leaves the stored attempt of every other pair as it was; an
\* attempt is stored for the one pair whose quizId and email it holds and for
\* no other, pairs whose quizId or email hold "::" included.
AttemptIsolation ==
    [][\A r \in Requests :
          /\ Merges(r) =>
                \/ req'[r].existing = NoDoc
                \/ PairOf(req'[r].existing) = PairOf(req'[r].body)
          /\ Saves(r) =>
                /\ \A p \in IsoPairs :
                      p # PairOf(req[r].body) =>
                          AttemptOf(attempts', p) = AttemptOf(attempts, p)
                /\ \A p \in IsoPairs :
                      AttemptOf(attempts', p) # NoDoc =>
                          PairOf(AttemptOf(attempts', p)) = p]_vars

====
